---- MODULE Spec2Model ----
(***************************************************************************)
(* A model of three parts of criterion.rs:                                 *)
(*   stats/src/univariate/kde/kernel.rs  the Gaussian kernel and its two   *)
(*                                       quickcheck properties             *)
(*   src/format.rs                       short, time, iter_count           *)
(*   src/plot/summary.rs                 line_comparison and violin        *)
(*                                                                         *)
(* Numbers.  TLC's integers are 32 bits wide, so a float of type A is      *)
(* modelled as a binary fixed-point number: the integer v stands for       *)
(* v / 2^FracBits(A).  Every operation rounds its exact result to the      *)
(* nearest representable value, ties to even, as IEEE 754 does.  f32 has   *)
(* 18 fractional bits and f64 has 26: the widths are scaled down, f64      *)
(* stays strictly finer than f32, and the f32 constant PI rounds upwards   *)
(* as the real f32 PI does.                                                *)
(***************************************************************************)
EXTENDS Integers, Sequences, FiniteSets

VARIABLES kernel, fmt, line, violin

vars == <<kernel, fmt, line, violin>>

(***************************************************************************)
(* Bounds of the model.                                                    *)
(***************************************************************************)
\* quickcheck's inputs a, b and x lie in [-MaxX, MaxX]
MaxX == 3
\* the symmetry property samples x at multiples of 1/GridDiv
GridDiv == 8
\* format.rs: the arguments are m * 10^e with m within MaxMant of a
\* landmark of at most MaxDigits digits
MaxMant == 5
MaxDigits == 6
\* time's arguments have -MaxNegExp <= e <= MaxTimeExp
MaxNegExp == 9
MaxTimeExp == 7
\* iter_count's arguments have 0 <= e <= MaxIterExp
MaxIterExp == 9
\* summary.rs: line_comparison gets at most MaxCurves curves, whose ids have
\* the numeric values 1..MaxInput or one that parses to NaN
MaxCurves == 3
MaxInput == 2
\* summary.rs: violin gets at most MaxViolins curves, whose densities are
\* estimated at KdePoints points and rise to at most MaxDensity quarters
MaxViolins == 2
MaxDensity == 3
KdePoints == 2

(***************************************************************************)
(* The Float trait (float::Float) for f32 and f64.                         *)
(***************************************************************************)
FloatTypes == {"f32", "f64"}

FracBits(A) == IF A = "f32" THEN 18 ELSE 26

One(A) == 2 ^ FracBits(A)

\* the numbers are split in two halves of HalfBase(A) to multiply in 32 bits
HalfBase(A) == 2 ^ (FracBits(A) \div 2)

Abs(v) == IF v < 0 THEN -v ELSE v

\* round q + rem/den (0 <= rem < den) to the nearest integer, ties to even
RoundNearestEven(q, rem, den) ==
    IF 2 * rem > den \/ (2 * rem = den /\ q % 2 = 1) THEN q + 1 ELSE q

\* a / k for an integer k > 0, rounded
DivInt(a, k) ==
    LET m == Abs(a)
        r == RoundNearestEven(m \div k, m % k, k)
    IN  IF a < 0 THEN -r ELSE r

\* hh + t / K, with t = cross + low \div K and l = low % K, rounded
MulRound(K, hh, t, l) ==
    RoundNearestEven(hh + (t \div K), (t % K) * K + l, K * K)

\* the partial products ah * bh, ah * bl + al * bh and al * bl summed
MulParts(K, ah, al, bh, bl) ==
    MulRound(K, ah * bh, ah * bl + al * bh + ((al * bl) \div K), (al * bl) % K)

\* |a| * |b| for a, b >= 0, rounded
MulAbs(A, a, b) ==
    MulParts(HalfBase(A), a \div HalfBase(A), a % HalfBase(A),
             b \div HalfBase(A), b % HalfBase(A))

\* a * b
Mul(A, a, b) ==
    LET r == MulAbs(A, Abs(a), Abs(b))
    IN  IF (a < 0) = (b < 0) THEN r ELSE -r

\* a slip: x.powi(1)
Powi1(A, x) == x

\* x.powi(2)
Powi2(A, x) == Mul(A, x, x)

\* a / b for a >= 0, b > 0, rounded: binary long division
RECURSIVE DivBits(_, _, _, _)
DivBits(q, r, b, n) ==
    IF n = 0 THEN RoundNearestEven(q, r, b)
    ELSE IF 2 * r >= b THEN DivBits(2 * q + 1, 2 * r - b, b, n - 1)
         ELSE DivBits(2 * q, 2 * r, b, n - 1)

Div(A, a, b) == DivBits(a \div b, a % b, b, FracBits(A))

\* x.recip()
Recip(A, x) == Div(A, One(A), x)

\* r * r as <<q, rem>>: r * r = q * One(A) + rem, formed in 32 bits
SquareParts(A, r) ==
    LET K   == HalfBase(A)
        rh  == r \div K
        rl  == r % K
        low == rl * rl
        t   == 2 * rh * rl + (low \div K)
    IN  <<rh * rh + (t \div K), (t % K) * K + (low % K)>>

\* r * r <= v * One(A)
SquareAtMost(A, r, v) ==
    LET s == SquareParts(A, r)
    IN  s[1] < v \/ (s[1] = v /\ s[2] = 0)

RECURSIVE SqrtSearch(_, _, _, _)
SqrtSearch(A, v, lo, hi) ==
    IF lo >= hi THEN lo
    ELSE LET mid == (lo + hi + 1) \div 2
         IN  IF SquareAtMost(A, mid, v) THEN SqrtSearch(A, v, mid, hi)
             ELSE SqrtSearch(A, v, lo, mid - 1)

\* x.sqrt() for x >= 0, rounded: with r the floor root, r when
\* v * One(A) - r * r <= r, and r + 1 otherwise
Sqrt(A, v) ==
    LET r    == SqrtSearch(A, v, 0, 2 ^ ((31 + FracBits(A)) \div 2))
        s    == SquareParts(A, r)
        diff == (v - s[1]) * One(A) - s[2]
    IN  IF diff <= r THEN r ELSE r + 1

\* the terms of the series of exp that the model sums
TaylorTerms == 12

\* exp(-f) for 0 <= f <= 1 by Horner's rule:
\* 1 - f/1 * (1 - f/2 * (1 - f/3 * ...))
RECURSIVE Horner(_, _, _)
Horner(A, f, k) ==
    IF k > TaylorTerms THEN One(A)
    ELSE One(A) - DivInt(Mul(A, f, Horner(A, f, k + 1)), k)

\* exp(-1)
EInv32 == Horner("f32", One("f32"), 1)

EInv64 == Horner("f64", One("f64"), 1)

EInv(A) == IF A = "f32" THEN EInv32 ELSE EInv64

\* exp(-u) for u >= 0: exp(-1) * exp(-(u - 1)) above 1
RECURSIVE ExpNeg(_, _)
ExpNeg(A, u) ==
    IF u <= One(A) THEN Horner(A, u, 1)
    ELSE Mul(A, EInv(A), ExpNeg(A, u - One(A)))

\* x.exp()
Exp(A, x) == IF x <= 0 THEN ExpNeg(A, -x) ELSE Recip(A, ExpNeg(A, x))

(***************************************************************************)
(* kernel.rs: the Gaussian kernel.                                         *)
(***************************************************************************)
\* std::f32::consts::PI, an f32 whatever A is: pi rounded to f32
PI == 823550

\* A::cast(v) of an f32 v: exact, A is at least as fine as f32
CastF32(A, v) == v * 2 ^ (FracBits(A) - FracBits("f32"))

\* A::cast(-0.5)
MinusHalf(A) == -(One(A) \div 2)

\* (A::cast(2. * PI)).sqrt().recip(); 2. * PI is an f32 product
GaussNorm32 == Recip("f32", Sqrt("f32", CastF32("f32", 2 * PI)))

GaussNorm64 == Recip("f64", Sqrt("f64", CastF32("f64", 2 * PI)))

GaussNorm(A) == IF A = "f32" THEN GaussNorm32 ELSE GaussNorm64

\* a slip: the factor 1 / sqrt(2 * pi) left out
EvaluateUnnormalised(A, x) == Exp(A, Mul(A, Powi2(A, x), MinusHalf(A)))

\* Gaussian.evaluate(x)
Evaluate(A, x) ==
    Mul(A, Exp(A, Mul(A, Powi2(A, x), MinusHalf(A))), GaussNorm(A))

(***************************************************************************)
(* kernel.rs: the quickcheck properties symmetric and integral, one test   *)
(* case per behaviour.  kernel.pc is the position in the test.             *)
(***************************************************************************)
\* const DX: $ty = 1e-3
DX(A) == DivInt(One(A), 1000)

\* relative_eq!(a, b) with the default epsilon, one unit in the last place
RelativeEq(a, b) == Abs(a - b) <= 1

KernelIdle ==
    [pc |-> "idle", ty |-> "f64", a |-> 0, b |-> 0, x |-> 0, y |-> 0,
     yneg |-> 0, acc |-> 0, ok |-> TRUE]

\* the x of symmetric
XGrid(A) ==
    {i * One(A) + (j * One(A)) \div GridDiv : i \in (-MaxX)..(MaxX - 1), j \in 0..GridDiv}

\* the a and b of integral
Endpoints(A) == {k * One(A) : k \in (-MaxX)..MaxX}

\* relative_eq!(Gaussian.evaluate(-x), Gaussian.evaluate(x))
SymmetricResult(A, x, yneg, y) ==
    [KernelIdle EXCEPT !.pc = "symmetric", !.ty = A, !.x = x, !.yneg = yneg,
                       !.y = y, !.ok = RelativeEq(yneg, y)]

\* fn symmetric(x: $ty) -> bool
Symmetric(A, x) ==
    /\ kernel.pc = "idle"
    /\ kernel' = SymmetricResult(A, x, Evaluate(A, -x), Evaluate(A, x))

\* fn integral(a: $ty, b: $ty): discarded when a > b, else the loop starts
IntegralStart(A, a, b) ==
    /\ kernel.pc = "idle"
    /\ IF a > b
       THEN kernel' = [KernelIdle EXCEPT !.pc = "discard", !.ty = A,
                                       !.a = a, !.b = b]
       ELSE kernel' = [KernelIdle EXCEPT !.pc = "loop", !.ty = A, !.a = a,
                                       !.b = b, !.x = a, !.acc = 0,
                                       !.y = Evaluate(A, a)]

\* the body of the loop, with y1 = Gaussian.evaluate(x1) computed once
LoopBody(A, k, x1, y1) ==
    [k EXCEPT !.acc = k.acc + DivInt(Mul(A, DX(A), k.y), 2)
                            + DivInt(Mul(A, DX(A), y1), 2),
              !.x = x1, !.y = y1]

\* one turn of while x < b
IntegralStep ==
    /\ kernel.pc = "loop"
    /\ kernel.x < kernel.b
    /\ kernel' = LoopBody(kernel.ty, kernel, kernel.x + DX(kernel.ty),
                          Evaluate(kernel.ty, kernel.x + DX(kernel.ty)))

\* the loop is left and the test's verdict computed
IntegralDone ==
    /\ kernel.pc = "loop"
    /\ ~(kernel.x < kernel.b)
    /\ LET one == One(kernel.ty)
       IN  kernel' = [kernel EXCEPT !.pc = "done",
                 !.ok = /\ (kernel.acc > 0 \/ RelativeEq(kernel.acc, 0))
                        /\ (kernel.acc < one \/ RelativeEq(kernel.acc, one))]

(***************************************************************************)
(* format.rs.  An f64 or u64 argument is the decimal number m * 10^e,      *)
(* held as [m |-> m, e |-> e] with m >= 0; multiplying or dividing by a    *)
(* power of ten moves e.  A String is the sequence of its characters.      *)
(***************************************************************************)
Pow10(k) == 10 ^ k

RECURSIVE NumDigits(_)
NumDigits(m) == IF m < 10 THEN 1 ELSE 1 + NumDigits(m \div 10)

\* n < 10^k
LessPow10(n, k) == n.m = 0 \/ NumDigits(n.m) + n.e <= k

\* n * 10^k (n / 10^(-k) for k < 0)
ShiftPow10(n, k) == [m |-> n.m, e |-> n.e + k]

DigitChars == <<"0", "1", "2", "3", "4", "5", "6", "7", "8", "9">>

RECURSIVE Digits(_)
Digits(m) ==
    IF m < 10 THEN <<DigitChars[m + 1]>>
    ELSE Append(Digits(m \div 10), DigitChars[(m % 10) + 1])

Repeat(c, k) == [i \in 1..k |-> c]

\* The rounding of a decimal tie by the formatter depends on the toolchain:
\* "even" rounds a tie to the even digit, "away" rounds it away from zero.
TieRules == {"even", "away"}

\* m / p rounded to an integer under the tie rule
RoundDiv(m, p, tie) ==
    LET q == m \div p
        r == m % p
    IN  IF 2 * r > p \/ (2 * r = p /\ (tie = "away" \/ q % 2 = 1))
        THEN q + 1 ELSE q

\* the digits of n * 10^d rounded to an integer
ScaledDigits(n, d, tie) ==
    IF n.m = 0 THEN <<"0">>
    ELSE IF n.e + d >= 0 THEN Digits(n.m) \o Repeat("0", n.e + d)
    ELSE IF -(n.e + d) > 9 THEN <<"0">>
    ELSE Digits(RoundDiv(n.m, Pow10(-(n.e + d)), tie))

\* format!("{:.d}", n): n rounded to d decimals
FormatFixed(n, d, tie) ==
    LET t == ScaledDigits(n, d, tie)
        p == IF Len(t) > d THEN t ELSE Repeat("0", d + 1 - Len(t)) \o t
        k == Len(p) - d
    IN  IF d = 0 THEN p
        ELSE SubSeq(p, 1, k) \o <<".">> \o SubSeq(p, k + 1, Len(p))

\* n with the trailing zeros of m moved into e
RECURSIVE Normal(_)
Normal(n) ==
    IF n.m # 0 /\ n.m % 10 = 0 THEN Normal([m |-> n.m \div 10, e |-> n.e + 1])
    ELSE n

\* format!("{}", n) for n >= 1: the shortest decimal, no exponent
Display(n) ==
    LET z == Normal(n)
        t == Digits(z.m)
    IN  IF z.e >= 0 THEN t \o Repeat("0", z.e)
        ELSE IF Len(t) > -z.e
             THEN SubSeq(t, 1, Len(t) + z.e) \o <<".">>
                      \o SubSeq(t, Len(t) + z.e + 1, Len(t))
             ELSE <<"0", ".">> \o Repeat("0", -z.e - Len(t)) \o t

\* format!("{:>w}", s)
PadLeft(s, w) == IF Len(s) >= w THEN s ELSE Repeat(" ", w - Len(s)) \o s

\* fn short(n: f64) -> String
Short(n, tie) ==
    IF LessPow10(n, 1) THEN FormatFixed(n, 4, tie)
    ELSE IF LessPow10(n, 2) THEN FormatFixed(n, 3, tie)
    ELSE IF LessPow10(n, 3) THEN FormatFixed(n, 2, tie)
    ELSE IF LessPow10(n, 4) THEN FormatFixed(n, 1, tie)
    ELSE Display(n)

\* a slip: the bound of the ms branch typed 10f64.powi(8)
TimeBranchSlip(ns) ==
    IF LessPow10(ns, 0) THEN [unit |-> <<"p", "s">>, value |-> ShiftPow10(ns, 3)]
    ELSE IF LessPow10(ns, 3) THEN [unit |-> <<"n", "s">>, value |-> ns]
    ELSE IF LessPow10(ns, 6)
         THEN [unit |-> <<"u", "s">>, value |-> ShiftPow10(ns, -3)]
    ELSE IF LessPow10(ns, 8)
         THEN [unit |-> <<"m", "s">>, value |-> ShiftPow10(ns, -6)]
    ELSE [unit |-> <<"s">>, value |-> ShiftPow10(ns, -9)]

\* the branch of time: the unit and the value handed to short
TimeBranch(ns) ==
    IF LessPow10(ns, 0) THEN [unit |-> <<"p", "s">>, value |-> ShiftPow10(ns, 3)]
    ELSE IF LessPow10(ns, 3) THEN [unit |-> <<"n", "s">>, value |-> ns]
    ELSE IF LessPow10(ns, 6)
         THEN [unit |-> <<"u", "s">>, value |-> ShiftPow10(ns, -3)]
    ELSE IF LessPow10(ns, 9)
         THEN [unit |-> <<"m", "s">>, value |-> ShiftPow10(ns, -6)]
    ELSE [unit |-> <<"s">>, value |-> ShiftPow10(ns, -9)]

\* pub fn time(ns: f64) -> String
TimeString(ns, tie) ==
    PadLeft(Short(TimeBranch(ns).value, tie), 6) \o <<" ">> \o TimeBranch(ns).unit

IterSuffix == <<" ", "i", "t", "e", "r", "a", "t", "i", "o", "n", "s">>

\* a slip: the bound of the {:.1}M branch typed 1_000_000
IterBranchSlip(n) ==
    IF LessPow10(n, 4) THEN [id |-> 1, unit |-> 0, dec |-> 0, letter |-> <<>>]
    ELSE IF LessPow10(n, 6)
         THEN [id |-> 2, unit |-> 3, dec |-> 0, letter |-> <<"k">>]
    ELSE IF LessPow10(n, 6)
         THEN [id |-> 3, unit |-> 6, dec |-> 1, letter |-> <<"M">>]
    ELSE IF LessPow10(n, 9)
         THEN [id |-> 4, unit |-> 6, dec |-> 0, letter |-> <<"M">>]
    ELSE IF LessPow10(n, 10)
         THEN [id |-> 5, unit |-> 9, dec |-> 1, letter |-> <<"B">>]
    ELSE [id |-> 6, unit |-> 9, dec |-> 0, letter |-> <<"B">>]

\* the branch of iter_count: the power of ten divided by, the decimals
\* shown and the letter after the number
IterBranch(n) ==
    IF LessPow10(n, 4) THEN [id |-> 1, unit |-> 0, dec |-> 0, letter |-> <<>>]
    ELSE IF LessPow10(n, 6)
         THEN [id |-> 2, unit |-> 3, dec |-> 0, letter |-> <<"k">>]
    ELSE IF LessPow10(n, 7)
         THEN [id |-> 3, unit |-> 6, dec |-> 1, letter |-> <<"M">>]
    ELSE IF LessPow10(n, 9)
         THEN [id |-> 4, unit |-> 6, dec |-> 0, letter |-> <<"M">>]
    ELSE IF LessPow10(n, 10)
         THEN [id |-> 5, unit |-> 9, dec |-> 1, letter |-> <<"B">>]
    ELSE [id |-> 6, unit |-> 9, dec |-> 0, letter |-> <<"B">>]

\* the number at the head of iter_count's result
IterNumber(n, tie) ==
    LET br == IterBranch(n)
    IN  IF br.id = 1 THEN Display(n)
        ELSE FormatFixed(ShiftPow10(n, -br.unit), br.dec, tie)

\* pub fn iter_count(iterations: u64) -> String
IterCountString(n, tie) ==
    IterNumber(n, tie) \o IterBranch(n).letter \o IterSuffix

\* fmt holds the last call: its argument, the tie rule of the build, the
\* value formatted, its digits, the unit after them and the String returned
FmtIdle ==
    [pc |-> "idle", arg |-> [m |-> 0, e |-> 0], tie |-> "even",
     value |-> [m |-> 0, e |-> 0], number |-> <<>>, unit |-> <<>>,
     out |-> <<>>]

\* the arguments tried: mantissas 0..MaxMant, and those within MaxMant of a
\* power of ten or of 1.05 times one, times a power of ten
Mantissas ==
    (0..MaxMant)
        \cup {Pow10(k) - j : k \in 1..MaxDigits, j \in 0..MaxMant}
        \cup {Pow10(k) + 5 * Pow10(k - 2) + j - 1 :
                  k \in 2..MaxDigits, j \in 0..MaxMant}

TimeArgs == {[m |-> m, e |-> e] : m \in Mantissas, e \in (-MaxNegExp)..MaxTimeExp}

IterArgs == {[m |-> m, e |-> e] : m \in Mantissas, e \in 0..MaxIterExp}

Time(ns, tie) ==
    /\ fmt.pc = "idle"
    /\ fmt' = [pc |-> "time", arg |-> ns, tie |-> tie,
               value |-> TimeBranch(ns).value,
               number |-> Short(TimeBranch(ns).value, tie),
               unit |-> TimeBranch(ns).unit,
               out |-> TimeString(ns, tie)]

IterCount(n, tie) ==
    /\ fmt.pc = "idle"
    /\ fmt' = [pc |-> "iter_count", arg |-> n, tie |-> tie,
               value |-> ShiftPow10(n, -IterBranch(n).unit),
               number |-> IterNumber(n, tie),
               unit |-> IterBranch(n).letter,
               out |-> IterCountString(n, tie)]

(***************************************************************************)
(* plot/summary.rs.  The f64 values are those of the float model above; an *)
(* f64 that may be NaN is [nan |-> b, v |-> v].  Titles, fonts, colours of *)
(* the figure other than the series' own and the gnuplot process are left  *)
(* out; the figure is the sequence of its plots and its axes.              *)
(***************************************************************************)
F64One == One("f64")

Num(v) == [nan |-> FALSE, v |-> v]

NaN == [nan |-> TRUE, v |-> 0]

\* const NUM_COLORS: usize = 8
NUM_COLORS == 8

AxisScales == {"Linear", "Logarithmic"}

\* AxisScale::to_gnuplot
ToGnuplot(axis) == IF axis = "Linear" THEN "Scale::Linear" ELSE "Scale::Logarithmic"

RECURSIVE Sum(_)
Sum(s) == IF s = <<>> THEN 0 ELSE Head(s) + Sum(Tail(s))

\* Sample::new(sample).mean(): the arithmetic average
Mean(sample) == DivInt(Sum(sample), Len(sample))

\* Sample::new(&y).max()
RECURSIVE SeqMax(_)
SeqMax(s) ==
    IF Len(s) = 1 THEN s[1]
    ELSE LET m == SeqMax(Tail(s)) IN IF s[1] > m THEN s[1] ELSE m

Front(s) == SubSeq(s, 1, Len(s) - 1)

Last(s) == s[Len(s)]

\* a slip: every curve a group of its own (grouped by the whole id)
GroupByEach(curves) ==
    [i \in 1..Len(curves) |-> [key |-> curves[i].fid, items |-> <<curves[i]>>]]

\* itertools' group_by(|id| &id.function_id): the runs of consecutive
\* curves with the same function_id, in order
RECURSIVE GroupBy(_)
GroupBy(curves) ==
    IF curves = <<>> THEN <<>>
    ELSE LET g == GroupBy(Front(curves))
             c == Last(curves)
         IN  IF g # <<>> /\ Last(g).key = c.fid
             THEN Append(Front(g), [key |-> c.fid,
                                    items |-> Append(Last(g).items, c)])
             ELSE Append(g, [key |-> c.fid, items |-> <<c>>])

\* the closure of map: (x, y) = (id.as_number().unwrap(), mean of the sample)
Tuples(items) ==
    [i \in 1..Len(items) |-> [x |-> items[i].x, y |-> Mean(items[i].sample)]]

\* ax.partial_cmp(&bx).unwrap_or(Ordering::Less) == Ordering::Less
IsLess(a, b) == a.x.nan \/ b.x.nan \/ a.x.v < b.x.v

\* the stable insertion sort of a short slice: the tail moves left past
\* every element it is less than
RECURSIVE InsertTail(_, _)
InsertTail(s, t) ==
    IF s = <<>> \/ ~IsLess(t, Last(s)) THEN Append(s, t)
    ELSE Append(InsertTail(Front(s), t), Last(s))

RECURSIVE InsertionSort(_)
InsertionSort(s) ==
    IF s = <<>> THEN <<>> ELSE InsertTail(InsertionSort(Front(s)), Last(s))

Permutations(s) ==
    {[i \in 1..Len(s) |-> s[p[i]]] :
        p \in {q \in [1..Len(s) -> 1..Len(s)] :
                  \A i, j \in 1..Len(s) : q[i] = q[j] => i = j}}

\* a slip: the xs sorted alone, the ys left where they were
SortXsOnly(tuples) ==
    {[i \in 1..Len(tuples) |->
         [x |-> InsertionSort(tuples)[i].x, y |-> tuples[i].y]]}

\* tuples.sort_by(..): the sorted Vec when the comparison is a total order;
\* with a NaN among the xs it is not, and sort_by leaves the order of the
\* elements unspecified
SortBy(tuples) ==
    IF \E i \in 1..Len(tuples) : tuples[i].x.nan THEN Permutations(tuples)
    ELSE {InsertionSort(tuples)}

\* the two plots of one group: Lines and Points over the same xs and ys
GroupPlots(key, tuples, i) ==
    LET xs == [k \in 1..Len(tuples) |-> tuples[k].x]
        ys == [k \in 1..Len(tuples) |-> tuples[k].y]
    IN  <<[kind |-> "Lines", label |-> key, x |-> xs, y |-> ys,
           color |-> i % NUM_COLORS],
          [kind |-> "Points", label |-> key, x |-> xs, y |-> ys,
           color |-> i % NUM_COLORS]>>

\* the figures the loop over the groups can draw: one per outcome of the
\* sorts
RECURSIVE FiguresOf(_)
FiguresOf(groups) ==
    IF groups = <<>> THEN {<<>>}
    ELSE {f \o GroupPlots(Last(groups).key, t, Len(groups) - 1) :
             f \in FiguresOf(Front(groups)),
             t \in SortBy(Tuples(Last(groups).items))}

\* let mut max = 0.0; if y > max { max = y }
RECURSIVE MaxMean(_)
MaxMean(curves) ==
    IF curves = <<>> THEN 0
    ELSE LET m == MaxMean(Front(curves))
             y == Mean(Last(curves).sample)
         IN  IF y > m THEN y ELSE m

FunctionIds == {"fa", "fb"}

\* the sample of the k-th curve given: k and k + 2, of mean k + 1
SampleOf(k) == <<k * F64One, (k + 2) * F64One>>

XValues == {NaN} \cup {Num(v * F64One) : v \in 1..MaxInput}

\* what the ids of the curves say: the function_id and the value
CurveIds == [fid : FunctionIds, x : XValues]

RECURSIVE SeqsUpTo(_, _)
SeqsUpTo(S, n) ==
    IF n = 0 THEN {<<>>}
    ELSE LET shorter == SeqsUpTo(S, n - 1)
         IN  shorter \cup {Append(q, e) : q \in {r \in shorter : Len(r) = n - 1},
                                           e \in S}

LineIdle ==
    [pc |-> "idle", curves |-> <<>>, plots |-> <<>>, max |-> 0,
     scale |-> "Scale::Linear"]

\* pub fn line_comparison(group_id, all_curves, path, value_type, axis_scale)
LineComparison(curves, axis) ==
    /\ line.pc = "idle"
    /\ \E plots \in FiguresOf(GroupBy(curves)) :
           line' = [pc |-> "drawn", curves |-> curves, plots |-> plots,
                    max |-> MaxMean(curves), scale |-> ToGnuplot(axis)]

(***************************************************************************)
(* plot/summary.rs: violin.  A curve is [id, kde]: the benchmark's id and  *)
(* what kde::sweep(Sample::new(sample), KDE_POINTS, None) returns for its  *)
(* sample, the xs and ys of the density estimate.                          *)
(***************************************************************************)
\* KDE_POINTS (500 in plot/mod.rs), the points of a sweep, scaled down
\* the density that peaks with h quarters at point c and falls by a quarter
\* per point away from it, down to 0
Density(h, c) ==
    [p \in 1..KdePoints |->
        IF Abs(p - c) < h THEN (h - Abs(p - c)) * (F64One \div 4) ELSE 0]

\* kde::sweep: KdePoints evenly spaced xs from a first point on, and a
\* density at each that is nowhere negative and somewhere positive
Sweeps ==
    {[x |-> [p \in 1..KdePoints |-> (x0 + p - 1) * F64One], y |-> Density(h, c)] :
        x0 \in {0, 1}, h \in 1..MaxDensity, c \in 1..KdePoints}

\* all_curves: curve k has the id k
ViolinInputs ==
    UNION {[1..n -> Sweeps] : n \in 0..MaxViolins}

Reverse(s) == [i \in 1..Len(s) |-> s[Len(s) + 1 - i]]

\* all_curves.iter().rev(), each curve with its id
Reversed(sweeps) ==
    Reverse([k \in 1..Len(sweeps) |-> [id |-> k, kde |-> sweeps[k]]])

\* a slip: every curve divided by the maximum over all the curves
KdesSharedMax(all_curves) ==
    [i \in 1..Len(all_curves) |->
        [x |-> all_curves[i].kde.x,
         y |-> [p \in 1..Len(all_curves[i].kde.y) |->
                   Div("f64", all_curves[i].kde.y[p],
                       SeqMax([j \in 1..Len(all_curves) |->
                                  SeqMax(all_curves[j].kde.y)]))]]]

\* let kdes: each curve's ys divided by y_max, the maximum of those ys
Kdes(all_curves) ==
    [i \in 1..Len(all_curves) |->
        [x |-> all_curves[i].kde.x,
         y |-> [p \in 1..Len(all_curves[i].kde.y) |->
                   Div("f64", all_curves[i].kde.y[p],
                       SeqMax(all_curves[i].kde.y))]]]

RECURSIVE Flatten(_)
Flatten(ss) == IF ss = <<>> THEN <<>> ELSE Head(ss) \o Flatten(Tail(ss))

\* kdes.iter().flat_map(|(x, _)| x.iter()).filter(|x| x > 0.)
PositiveXs(kdes) ==
    SelectSeq(Flatten([i \in 1..Len(kdes) |-> kdes[i].x]), LAMBDA x : x > 0)

\* for &e in xs { if e < min { min = e } else if e > max { max = e } }
RECURSIVE MinMax(_, _)
MinMax(mm, xs) ==
    IF xs = <<>> THEN mm
    ELSE MinMax(IF Head(xs) < mm[1] THEN <<Head(xs), mm[2]>>
                ELSE IF Head(xs) > mm[2] THEN <<mm[1], Head(xs)>>
                ELSE mm, Tail(xs))

\* a slip: the labels taken from the curves in the order they were given
TicsInputOrder(all_curves) ==
    [j \in 1..Len(all_curves) |->
        [pos |-> (j - 1) * F64One + F64One \div 2,
         label |-> Reverse(all_curves)[j].id]]

\* TicLabels: the positions 0.5, 1.5, ... with the ids of the curves
Tics(all_curves) ==
    [j \in 1..Len(all_curves) |->
        [pos |-> (j - 1) * F64One + F64One \div 2, label |-> all_curves[j].id]]

\* the loop over kdes.iter().enumerate(): one FilledCurve per kde
FilledCurves(kdes) ==
    [j \in 1..Len(kdes) |->
        [x |-> kdes[j].x,
         y1 |-> [p \in 1..Len(kdes[j].y) |->
                    ((j - 1) * F64One + F64One \div 2)
                        + Mul("f64", kdes[j].y[p], F64One \div 2)],
         y2 |-> [p \in 1..Len(kdes[j].y) |->
                    ((j - 1) * F64One + F64One \div 2)
                        - Mul("f64", kdes[j].y[p], F64One \div 2)],
         label |-> IF j = 1 THEN "PDF" ELSE ""]]

ViolinIdle ==
    [pc |-> "idle", curves |-> <<>>, kdes |-> <<>>, min |-> 0, max |-> 0,
     size |-> <<0, 0>>, range |-> <<0, 0>>, tics |-> <<>>, plots |-> <<>>,
     scale |-> "Scale::Linear"]

\* the figure violin draws from the reversed curves; xs.next().unwrap()
\* panics when no x is positive
ViolinFigure(sweeps, all_curves, kdes, xs, axis) ==
    IF xs = <<>>
    THEN [ViolinIdle EXCEPT !.pc = "panic", !.curves = sweeps]
    ELSE [pc |-> "drawn", curves |-> sweeps, kdes |-> kdes,
          min |-> MinMax(<<Head(xs), Head(xs)>>, Tail(xs))[1],
          max |-> MinMax(<<Head(xs), Head(xs)>>, Tail(xs))[2],
          size |-> <<1280, 200 + 25 * Len(all_curves)>>,
          range |-> <<0, Len(all_curves) * F64One>>,
          tics |-> Tics(all_curves), plots |-> FilledCurves(kdes),
          scale |-> ToGnuplot(axis)]

\* pub fn violin(group_id, all_curves, path, axis_scale)
Violin(sweeps, axis) ==
    /\ violin.pc = "idle"
    /\ \E kdes \in {Kdes(Reversed(sweeps))} :
           violin' = ViolinFigure(sweeps, Reversed(sweeps), kdes,
                                  PositiveXs(kdes), axis)

(***************************************************************************)
(* The specifications: one per source file, and two for summary.rs; each   *)
(* behaviour is one test case or one call.                                 *)
(***************************************************************************)
Idle ==
    /\ kernel = KernelIdle
    /\ fmt = FmtIdle
    /\ line = LineIdle
    /\ violin = ViolinIdle

\* quickcheck runs symmetric on an x of its choice
SymmetricTest ==
    /\ kernel.pc = "idle"
    /\ \E A \in FloatTypes : \E x \in XGrid(A) : Symmetric(A, x)
    /\ UNCHANGED <<fmt, line, violin>>

\* quickcheck runs integral on an a and a b of its choice
IntegralTest ==
    /\ kernel.pc = "idle"
    /\ \E A \in FloatTypes : \E a, b \in Endpoints(A) : IntegralStart(A, a, b)
    /\ UNCHANGED <<fmt, line, violin>>

IntegralLoop == IntegralStep /\ UNCHANGED <<fmt, line, violin>>

IntegralExit == IntegralDone /\ UNCHANGED <<fmt, line, violin>>

NextKernel == SymmetricTest \/ IntegralTest \/ IntegralLoop \/ IntegralExit

SpecKernel == Idle /\ [][NextKernel]_vars

TimeCall ==
    /\ fmt.pc = "idle"
    /\ \E ns \in TimeArgs, tie \in TieRules : Time(ns, tie)
    /\ UNCHANGED <<kernel, line, violin>>

IterCountCall ==
    /\ fmt.pc = "idle"
    /\ \E n \in IterArgs, tie \in TieRules : IterCount(n, tie)
    /\ UNCHANGED <<kernel, line, violin>>

NextFormat == TimeCall \/ IterCountCall

SpecFormat == Idle /\ [][NextFormat]_vars

\* all_curves: every sequence of at most MaxCurves curves
LineInputs ==
    {[k \in 1..Len(q) |->
         [fid |-> q[k].fid, x |-> q[k].x, sample |-> SampleOf(k)]] :
        q \in SeqsUpTo(CurveIds, MaxCurves)}

LineComparisonCall ==
    /\ line.pc = "idle"
    /\ \E curves \in LineInputs, axis \in AxisScales :
           LineComparison(curves, axis)
    /\ UNCHANGED <<kernel, fmt, violin>>

NextLine == LineComparisonCall

SpecLine == Idle /\ [][NextLine]_vars

ViolinCall ==
    /\ violin.pc = "idle"
    /\ \E sweeps \in ViolinInputs, axis \in AxisScales : Violin(sweeps, axis)
    /\ UNCHANGED <<kernel, fmt, line>>

NextViolin == ViolinCall

SpecViolin == Idle /\ [][NextViolin]_vars

(***************************************************************************)
(* Properties of the kernel.                                               *)
(***************************************************************************)
\* C1: the Gaussian kernel is symmetric: for every x of either float type,
\* evaluate(-x) equals evaluate(x) within relative_eq's tolerance (the
\* symmetric test passes).
GaussianSymmetric ==
    kernel.pc = "symmetric" => kernel.ok /\ RelativeEq(kernel.yneg, kernel.y)

\* C1 witness: the test ran on a negative x away from the peak.
GaussianSymmetricWitness ==
    /\ kernel.pc = "symmetric"
    /\ kernel.ty = "f64"
    /\ kernel.x < -One("f64")
    /\ kernel.y > 0
    /\ kernel.y < GaussNorm64 \div 2

PiAt(A) == IF A = "f32" THEN 823550 ELSE 210828714

ReferenceNorm32 == Recip("f32", Sqrt("f32", 2 * PiAt("f32")))

ReferenceNorm64 == Recip("f64", Sqrt("f64", 2 * PiAt("f64")))

\* exp(-x^2/2) / sqrt(2 * pi) with pi at the precision of A
Reference(A, x) ==
    Mul(A, Exp(A, Mul(A, Powi2(A, x), MinusHalf(A))),
        IF A = "f32" THEN ReferenceNorm32 ELSE ReferenceNorm64)

\* C3: for both float widths evaluate(x) is exp(-x^2/2) / sqrt(2 * pi) with
\* pi at the precision of the float type the kernel is evaluated in.
EvaluateUsesPiOfType ==
    kernel.pc = "symmetric" => kernel.y = Reference(kernel.ty, kernel.x)

(***************************************************************************)
(* Properties of format.rs.                                                *)
(***************************************************************************)
\* a and b are the same number
SameNumber(a, b) == (a.m = 0 /\ b.m = 0) \/ Normal(a) = Normal(b)

\* the characters of s before its decimal point, and the number after it
IntegerPart(s) ==
    IF \E i \in 1..Len(s) : s[i] = "."
    THEN SubSeq(s, 1, (CHOOSE i \in 1..Len(s) : s[i] = ".") - 1)
    ELSE s

Decimals(s) ==
    IF \E i \in 1..Len(s) : s[i] = "."
    THEN Len(s) - (CHOOSE i \in 1..Len(s) : s[i] = ".")
    ELSE 0

DigitValue(c) == (CHOOSE i \in 1..10 : DigitChars[i] = c) - 1

RECURSIVE DigitsValue(_)
DigitsValue(s) ==
    IF s = <<>> THEN 0
    ELSE 10 * DigitsValue(SubSeq(s, 1, Len(s) - 1)) + DigitValue(s[Len(s)])

\* the number a string of digits with at most one decimal point reads as
ParseDecimal(s) ==
    [m |-> DigitsValue(SelectSeq(s, LAMBDA c : c # ".")), e |-> -Decimals(s)]

\* C6: time picks one unit by the magnitude of ns and hands short the value
\* in that unit: ps and ns * 1000 below 1, ns and ns below 10^3, us and
\* ns / 10^3 below 10^6, ms and ns / 10^6 below 10^9, s and ns / 10^9 from
\* 10^9 up; so below 10^12 ns the value handed to short is below 1000.
TimeUnitByMagnitude ==
    fmt.pc = "time" =>
        LET ns == fmt.arg
            is(u, k) == fmt.unit = u /\ SameNumber(fmt.value, ShiftPow10(ns, k))
        IN  /\ LessPow10(ns, 0) => is(<<"p", "s">>, 3)
            /\ ~LessPow10(ns, 0) /\ LessPow10(ns, 3) => is(<<"n", "s">>, 0)
            /\ ~LessPow10(ns, 3) /\ LessPow10(ns, 6) => is(<<"u", "s">>, -3)
            /\ ~LessPow10(ns, 6) /\ LessPow10(ns, 9) => is(<<"m", "s">>, -6)
            /\ ~LessPow10(ns, 9) => is(<<"s">>, -9)
            /\ LessPow10(ns, 12) => LessPow10(fmt.value, 3)
            /\ fmt.out = PadLeft(fmt.number, 6) \o <<" ">> \o fmt.unit

\* C6 witness: a duration of hundreds of milliseconds was formatted.
TimeUnitByMagnitudeWitness ==
    /\ fmt.pc = "time"
    /\ fmt.unit = <<"m", "s">>
    /\ ~LessPow10(fmt.value, 2)
    /\ LessPow10(fmt.value, 3)

\* |shown - n| * k <= n * j, for shown = a * 10^u
ErrorWithin(a, u, n, k, j) ==
    LET lo == IF a.e + u < n.e THEN a.e + u ELSE n.e
        x  == a.m * Pow10(a.e + u - lo)
        y  == n.m * Pow10(n.e - lo)
    IN  IF n.m = 0 THEN a.m = 0 ELSE Abs(x - y) * k <= y * j

\* C7: iter_count falls in one of six ranges that cover every count: the
\* count itself below 10^4; count / 10^3 with no decimals and k below 10^6;
\* count / 10^6 and M with one decimal below 10^7 and none below 10^9;
\* count / 10^9 and B with one decimal below 10^10 and none above; what is
\* shown is the count rounded to the last digit shown and is never more
\* than 5% away from it.
IterCountRanges ==
    fmt.pc = "iter_count" =>
        LET n == fmt.arg
            is(l, u, d) ==
                /\ fmt.unit = l
                /\ Decimals(fmt.number) = d
                /\ \A i \in 1..Len(fmt.number) :
                       fmt.number[i] = "." \/ fmt.number[i] \in
                           {DigitChars[j] : j \in 1..10}
                /\ ErrorWithin(ParseDecimal(fmt.number), u, n, 20, 1)
                /\ fmt.out = fmt.number \o l \o IterSuffix
        IN  /\ LessPow10(n, 4) =>
                   is(<<>>, 0, 0) /\ SameNumber(ParseDecimal(fmt.number), n)
            /\ ~LessPow10(n, 4) /\ LessPow10(n, 6) => is(<<"k">>, 3, 0)
            /\ ~LessPow10(n, 6) /\ LessPow10(n, 7) => is(<<"M">>, 6, 1)
            /\ ~LessPow10(n, 7) /\ LessPow10(n, 9) => is(<<"M">>, 6, 0)
            /\ ~LessPow10(n, 9) /\ LessPow10(n, 10) => is(<<"B">>, 9, 1)
            /\ ~LessPow10(n, 10) => is(<<"B">>, 9, 0)

\* C7 witness: a count between 10^6 and 10^7 was shown with one decimal
\* that is not the count exactly.
IterCountRangesWitness ==
    /\ fmt.pc = "iter_count"
    /\ fmt.unit = <<"M">>
    /\ Decimals(fmt.number) = 1
    /\ ~SameNumber(ShiftPow10(ParseDecimal(fmt.number), 6), fmt.arg)

\* C8: for every n below 10000 short(n) is six characters long, so the
\* number column of time is six characters wide.
ShortIsSixCharacters ==
    fmt.pc = "time" /\ LessPow10(fmt.value, 4) =>
        /\ Len(fmt.number) = 6
        /\ Len(fmt.out) = 6 + 1 + Len(fmt.unit)

(***************************************************************************)
(* Properties of plot/summary.rs.                                          *)
(***************************************************************************)
\* the curves with the same function_id are next to each other
Contiguous(curves) ==
    \A i, j, k \in 1..Len(curves) :
        i < j /\ j < k /\ curves[i].fid = curves[k].fid
            => curves[j].fid = curves[i].fid

\* how often e occurs in q
Count(q, e) == Cardinality({i \in 1..Len(q) : q[i] = e})

\* the (x, mean) points of the curves of function f
PointsOf(curves, f) ==
    LET own == SelectSeq(curves, LAMBDA c : c.fid = f)
    IN  [i \in 1..Len(own) |-> [x |-> own[i].x, y |-> Mean(own[i].sample)]]

\* the points of a plot
PlotPoints(p) == [i \in 1..Len(p.x) |-> [x |-> p.x[i], y |-> p.y[i]]]

\* the plot holds the points pts, each as often as pts does
HoldsPoints(plot, pts) ==
    /\ Len(plot.x) = Len(pts)
    /\ Len(plot.y) = Len(pts)
    /\ \A k \in 1..Len(pts) :
          Count(PlotPoints(plot), pts[k]) = Count(pts, pts[k])

\* C5: when the curves with the same function_id are contiguous,
\* line_comparison plots one Lines and one Points series per function_id
\* and nothing else, and each curve adds exactly one point (x, mean of its
\* sample) to the series of its function_id.
OneSeriesPerFunction ==
    line.pc = "drawn" /\ Contiguous(line.curves) =>
        LET fids == {line.curves[i].fid : i \in 1..Len(line.curves)}
            series(kind, f) ==
                {i \in 1..Len(line.plots) :
                    line.plots[i].kind = kind /\ line.plots[i].label = f}
        IN  /\ Len(line.plots) = 2 * Cardinality(fids)
            /\ \A f \in fids : \A kind \in {"Lines", "Points"} :
                  /\ Cardinality(series(kind, f)) = 1
                  /\ \A i \in series(kind, f) :
                        HoldsPoints(line.plots[i], PointsOf(line.curves, f))

\* C5 witness: three contiguous curves of two functions were plotted.
OneSeriesPerFunctionWitness ==
    /\ line.pc = "drawn"
    /\ Len(line.curves) = 3
    /\ Contiguous(line.curves)
    /\ line.curves[1].fid = line.curves[2].fid
    /\ line.curves[2].fid # line.curves[3].fid
    /\ Len(line.plots) = 4

\* the xs of the plot ascend, and each of its points is one of pts, no
\* more often than pts has it
SortedPairs(plot, pts) ==
    /\ \A k \in 1..(Len(plot.x) - 1) : plot.x[k].v <= plot.x[k + 1].v
    /\ \A k \in 1..Len(plot.x) :
          /\ Count(pts, PlotPoints(plot)[k]) > 0
          /\ Count(PlotPoints(plot), PlotPoints(plot)[k])
                 <= Count(pts, PlotPoints(plot)[k])

\* C10: in every series whose xs are all comparable the points are in
\* non-decreasing order of x, and each x is still paired with the mean of
\* the sample it came with.
SeriesSortedByX ==
    line.pc = "drawn" =>
        \A i \in 1..Len(line.plots) :
            (\A k \in 1..Len(line.plots[i].x) : ~line.plots[i].x[k].nan) =>
                SortedPairs(line.plots[i],
                            PointsOf(line.curves, line.plots[i].label))

\* C10 witness: two curves of one function given with the larger x first
\* and different means were plotted.
SeriesSortedByXWitness ==
    /\ line.pc = "drawn"
    /\ Len(line.curves) = 2
    /\ Len(line.plots) = 2
    /\ ~line.curves[1].x.nan
    /\ ~line.curves[2].x.nan
    /\ line.curves[1].x.v > line.curves[2].x.v
    /\ line.plots[1].y[1] # line.plots[1].y[2]

\* C4: violin divides each curve's densities by that curve's own maximum:
\* for every curve whose maximum is positive the largest normalised y is
\* exactly 1, every normalised y lies in [0, 1], and a y is 1 exactly where
\* the curve has its own maximum.
NormalisedByOwnMaximum ==
    violin.pc = "drawn" =>
        \A k \in 1..Len(violin.curves) :
            LET raw  == violin.curves[k].y
                norm == violin.kdes[Len(violin.curves) + 1 - k].y
            IN  SeqMax(raw) > 0 =>
                    /\ Len(norm) = Len(raw)
                    /\ SeqMax(norm) = F64One
                    /\ \A p \in 1..Len(norm) :
                          /\ 0 <= norm[p]
                          /\ norm[p] <= F64One
                          /\ norm[p] = F64One <=> raw[p] = SeqMax(raw)

\* C4 witness: two curves with different positive maxima were normalised.
NormalisedByOwnMaximumWitness ==
    /\ violin.pc = "drawn"
    /\ Len(violin.curves) = 2
    /\ SeqMax(violin.curves[1].y) > SeqMax(violin.curves[2].y)
    /\ SeqMax(violin.curves[2].y) > 0

\* C9: violin lays the n curves out in reverse input order, one per slot of
\* height 1: curve k (from 0) is centred at (n - 1 - k) + 0.5, the tick at
\* that height carries its id, and its band, as wide as its own normalised
\* density, lies within [n - 1 - k, n - k] of the Y range [0, n].
ViolinSlots ==
    violin.pc = "drawn" =>
        LET n == Len(violin.curves)
        IN  /\ violin.range = <<0, n * F64One>>
            /\ Len(violin.tics) = n
            /\ Len(violin.plots) = n
            /\ \A k \in 1..n :
                  LET j      == n + 1 - k
                      centre == (n - k) * F64One + F64One \div 2
                      raw    == violin.curves[k].y
                      band   == violin.plots[j]
                  IN  /\ violin.tics[j].pos = centre
                      /\ violin.tics[j].label = k
                      /\ band.x = violin.curves[k].x
                      /\ \A p \in 1..Len(raw) :
                            /\ band.y1[p] + band.y2[p] = 2 * centre
                            /\ (n - k) * F64One <= band.y2[p]
                            /\ band.y2[p] <= band.y1[p]
                            /\ band.y1[p] <= (n - k + 1) * F64One
                            /\ RelativeEq(band.y1[p] - band.y2[p],
                                          Div("f64", raw[p], SeqMax(raw)))

\* C9 witness: two curves with different densities were laid out.
ViolinSlotsWitness ==
    /\ violin.pc = "drawn"
    /\ Len(violin.curves) = 2
    /\ violin.curves[1].y # violin.curves[2].y
    /\ violin.tics[1].label = 2
    /\ violin.plots[2].y1 # violin.plots[1].y1
====
